---- MODULE Spec2Model ----
(***************************************************************************)
(* A/B testing framework of backend/ml/ab_testing.py: ModelVariant,        *)
(* ABTestExperiment and ABTestingService, as a state machine.              *)
(*                                                                         *)
(* Python floats are IEEE-754 binary64.  A float x with x = 0 or           *)
(* 2^-7 <= x < 256 is an integer multiple N of 2^-59; it is written here   *)
(* as the limbs <<hi, mid, lo>> with N = hi*2^46 + mid*2^23 + lo, so that  *)
(* sums, roundings and comparisons are the ones the interpreter computes.  *)
(***************************************************************************)
EXTENDS Integers, Sequences, FiniteSets, TLC

\* ------------------------------------------------------------------ bounds
MaxClock == 3          \* datetime.now() is read at most this many times
MaxVariants == 3       \* longest variant list add_variant may build
MaxPredictions == 2    \* record_prediction calls per experiment
NumThreads == 2        \* threads calling record_prediction concurrently
MaxCalls == 2          \* record_prediction calls the threads make in all

\* ------------------------------------------------------- binary64 arithmetic
Limb == 2 ^ 23

FZero == <<0, 0, 0>>

\* the float of a small int (int -> float conversion is exact; sums and
\* comparisons of such floats are exact too, whatever the sign)
FromInt(n) == <<n * 8192, 0, 0>>

FLess(a, b) ==
    \/ a[1] < b[1]
    \/ a[1] = b[1] /\ a[2] < b[2]
    \/ a[1] = b[1] /\ a[2] = b[2] /\ a[3] < b[3]

Carry(h, m, l) ==
    LET m1 == m + (l \div Limb)
    IN  <<h + (m1 \div Limb), m1 % Limb, l % Limb>>

\* spacing of the binary64 numbers around x, in units of 2^-59: 2^(e+7) for
\* 2^e <= x < 2^(e+1), read off the high limb (x >= 2^e iff hi >= 2^(e+13))
Quantum(h) ==
    IF h >= 1048576 THEN 16384
    ELSE IF h >= 524288 THEN 8192
    ELSE IF h >= 262144 THEN 4096
    ELSE IF h >= 131072 THEN 2048
    ELSE IF h >= 65536 THEN 1024
    ELSE IF h >= 32768 THEN 512
    ELSE IF h >= 16384 THEN 256
    ELSE IF h >= 8192 THEN 128
    ELSE IF h >= 4096 THEN 64
    ELSE IF h >= 2048 THEN 32
    ELSE IF h >= 1024 THEN 16
    ELSE IF h >= 512 THEN 8
    ELSE IF h >= 256 THEN 4
    ELSE IF h >= 128 THEN 2
    ELSE 1

\* round-to-nearest, ties-to-even, of an exact value to 53 significant bits
FRound(x) ==
    LET q == Quantum(x[1])
        r == x[3] % q
        down == x[3] - r
        up == IF 2 * r > q THEN TRUE
              ELSE IF 2 * r < q THEN FALSE
              ELSE (down \div q) % 2 = 1
    IN  Carry(x[1], x[2], IF up THEN down + q ELSE down)

\* float.__add__ : the exact sum, rounded once
FAdd(a, b) == FRound(Carry(a[1] + b[1], a[2] + b[2], a[3] + b[3]))

\* |a - b|, exact.  abs(total - 100.0) is exact for 50 <= total <= 200 and
\* far above the tolerance outside that range, so the comparison with the
\* tolerance has the same outcome on the exact difference.
FAbsDiff(a, b) ==
    LET hi == IF FLess(a, b) THEN b ELSE a
        lo == IF FLess(a, b) THEN a ELSE b
        l == hi[3] - lo[3]
        bl == IF l < 0 THEN 1 ELSE 0
        m == hi[2] - lo[2] - bl
        bm == IF m < 0 THEN 1 ELSE 0
    IN  <<hi[1] - lo[1] - bm, m + bm * Limb, l + bl * Limb>>

\* float.__sub__ for a >= b: the exact difference, rounded once
FSub(a, b) == FRound(FAbsDiff(a, b))

\* int.__truediv__ c / n for 0 <= c <= n <= 255 with c = 0 or c / n >= 2^-5:
\* the quotient by long division down to 2^-59, the remainder kept as a
\* sticky lowest bit, rounded once
FDiv(c, n) ==
    LET a == c * 8192
        b == (a % n) * Limb
        d == (b % n) * Limb
        lo == d \div n
    IN  FRound(<<a \div n, b \div n,
                 IF d % n > 0 /\ lo % 2 = 0 THEN lo + 1 ELSE lo>>)

\* float literals: the binary64 nearest to the decimal
F0_01 == <<81, 7717519, 3019899>>          \* 0.01
F33_33 == <<273039, 3019898, 7380992>>     \* 33.33
F33_34 == <<273121, 2348810, 2015232>>     \* 33.34
F49_99 == <<409518, 671088, 5369856>>      \* 49.99
F50 == FromInt(50)                         \* 50.0
F50_01 == <<409681, 7717519, 3018752>>     \* 50.01
F99_98 == <<819036, 1342177, 2351104>>     \* 99.98
F99_99 == <<819118, 671088, 5365760>>      \* 99.99
F100 == FromInt(100)                       \* 100.0
F100_01 == <<819281, 7717519, 3022848>>    \* 100.01
F100_02 == <<819363, 7046430, 6037504>>    \* 100.02
FThird == <<273066, 5592405, 2797568>>     \* 100 / 3

\* Python's true division 100 / n for the n the model uses
FDiv100(n) == IF n = 1 THEN F100 ELSE IF n = 2 THEN F50 ELSE FThird

\* ---------------------------------------------------------------- data model
\* ExperimentStatus
DRAFT == "draft"
RUNNING == "running"
PAUSED == "paused"
COMPLETED == "completed"
CANCELLED == "cancelled"
ExperimentStatus == {DRAFT, RUNNING, PAUSED, COMPLETED, CANCELLED}

\* Optional[...] values: None is the empty sequence, a value v is <<v>>
None == <<>>
Some(v) == <<v>>

\* ModelVariant(name, model_path, traffic_percentage, is_control): the
\* counters take their dataclass defaults
ModelVariant(name, traffic_percentage, is_control) ==
    [name |-> name,
     traffic_percentage |-> traffic_percentage,
     is_control |-> is_control,
     predictions |-> 0,
     correct_predictions |-> 0,
     fraud_detected |-> 0,
     false_positives |-> 0,
     false_negatives |-> 0,
     total_response_time_ms |-> 0]

\* what a method call does: the object as the call leaves it, whether the
\* call returned (ok) or raised, and the value returned
Return(e, ret) == [e |-> e, ok |-> TRUE, ret |-> ret]
Raise(e, err) == [e |-> e, ok |-> FALSE, ret |-> err]

\* ------------------------------------------------------- ABTestExperiment
RECURSIVE SumFrom(_, _, _)
SumFrom(variants, i, total) ==
    IF i > Len(variants) THEN total
    ELSE SumFrom(variants, i + 1, FAdd(total, variants[i].traffic_percentage))

\* sum(v.traffic_percentage for v in self.variants): a left fold from 0
SumTraffic(variants) == SumFrom(variants, 1, FZero)

\* _validate_traffic_split raises iff this holds
SplitInvalid(variants) ==
    /\ variants # <<>>
    /\ FLess(F0_01, FAbsDiff(SumTraffic(variants), F100))

\* ABTestExperiment.__init__; raises (no object) iff SplitInvalid(variants).
\* The attribute result is not created here: it is None until complete().
\* name, description, confidence_level and created_at are written here and
\* read by to_dict only; they are left out of the state.
NewExperiment(experiment_id, variants, min_samples) ==
    [experiment_id |-> experiment_id,
     variants |-> variants,
     min_samples |-> min_samples,
     status |-> DRAFT,
     started_at |-> None,
     completed_at |-> None,
     result |-> None]

add_variant(e, variant) ==
    LET e1 == [e EXCEPT !.variants = Append(@, variant)]
    IN  IF SplitInvalid(e1.variants) THEN Raise(e1, "ValueError")
        ELSE Return(e1, None)

\* start without the check of the variant list
start_NoEmptyCheck(e, now) ==
    Return([e EXCEPT !.status = RUNNING, !.started_at = Some(now)], None)

start(e, now) ==
    IF e.variants = <<>> THEN Raise(e, "ValueError")
    ELSE Return([e EXCEPT !.status = RUNNING, !.started_at = Some(now)], None)

pause(e) == Return([e EXCEPT !.status = PAUSED], None)

\* resume without the status check
resume_Unguarded(e) == Return([e EXCEPT !.status = RUNNING], None)

resume(e) ==
    IF e.status # PAUSED THEN Raise(e, "ValueError")
    ELSE Return([e EXCEPT !.status = RUNNING], None)

complete(e, result, now) ==
    Return([e EXCEPT !.status = COMPLETED,
                     !.completed_at = Some(now),
                     !.result = Some(result)], None)

\* the fallback that ignores is_control
ControlIndex_First(variants) == 1

\* next((v for v in self.variants if v.is_control), self.variants[0]), as an
\* index into a non-empty variant list
ControlIndex(variants) ==
    IF \E i \in 1..Len(variants) : variants[i].is_control
    THEN CHOOSE i \in 1..Len(variants) :
            /\ variants[i].is_control
            /\ \A j \in 1..(i - 1) : ~variants[j].is_control
    ELSE 1

\* the loop of lines 162-165 from variant i on: cumulative += percentage,
\* return at the first bucket < cumulative; past the end, the last variant
RECURSIVE WalkFrom(_, _, _, _)
WalkFrom(variants, i, cumulative, bucket) ==
    IF i > Len(variants) THEN Len(variants)
    ELSE LET c == FAdd(cumulative, variants[i].traffic_percentage)
         IN  IF FLess(FromInt(bucket), c) THEN i
             ELSE WalkFrom(variants, i + 1, c, bucket)

\* the walk over buckets 1..100 in place of 0..99
AssignBucket_FromOne(variants, bucket) == WalkFrom(variants, 1, FZero, bucket + 1)

\* the loop of get_variant_for_user and its fall-through to variants[-1]
AssignBucket(variants, bucket) == WalkFrom(variants, 1, FZero, bucket)

\* experiment ids: two outcomes of str(uuid.uuid4())[:8] and the id a caller
\* gives to an experiment it constructs itself
Ids == {"a3f91c07", "5be2d840"}
StandaloneId == "exp_001"
Users == {"user_1", "user_13"}

\* int(hashlib.md5(f"{user_id}:{experiment_id}".encode()).hexdigest(), 16) % 100
HashBucket(user_id, experiment_id) ==
    CASE experiment_id = "a3f91c07" ->
            (CASE user_id = "user_1" -> 17
               [] user_id = "user_13" -> 50
               [] user_id = "user_103" -> 99)
      [] experiment_id = "5be2d840" ->
            (CASE user_id = "user_1" -> 67
               [] user_id = "user_13" -> 32
               [] user_id = "user_103" -> 44)
      [] experiment_id = "exp_001" ->
            (CASE user_id = "user_1" -> 78
               [] user_id = "user_13" -> 77
               [] user_id = "user_103" -> 88)

\* get_variant_for_user that sends everyone to the last variant once the
\* first variant has a prediction
get_variant_for_user_ByLoad(e, user_id) ==
    IF e.variants = <<>> THEN Raise(e, "IndexError")
    ELSE IF e.status # RUNNING THEN Return(e, ControlIndex(e.variants))
    ELSE IF e.variants[1].predictions > 0 THEN Return(e, Len(e.variants))
    ELSE Return(e, AssignBucket(e.variants, HashBucket(user_id, e.experiment_id)))

\* get_variant_for_user without the not-running fallback
get_variant_for_user_NoFallback(e, user_id) ==
    IF e.variants = <<>> THEN Raise(e, "IndexError")
    ELSE Return(e, AssignBucket(e.variants, HashBucket(user_id, e.experiment_id)))

\* get_variant_for_user: the variant returned, as its index in e.variants.
\* self.variants[0] is evaluated before next() is called, so the fallback
\* raises IndexError on an empty list, as self.variants[-1] does after the
\* loop.
get_variant_for_user(e, user_id) ==
    IF e.variants = <<>> THEN Raise(e, "IndexError")
    ELSE IF e.status # RUNNING THEN Return(e, ControlIndex(e.variants))
    ELSE Return(e, AssignBucket(e.variants, HashBucket(user_id, e.experiment_id)))

\* next((v for v in self.variants if v.name == variant_name), None): 0 is None
FindVariant(variants, variant_name) ==
    IF \E i \in 1..Len(variants) : variants[i].name = variant_name
    THEN CHOOSE i \in 1..Len(variants) :
            /\ variants[i].name = variant_name
            /\ \A j \in 1..(i - 1) : variants[j].name # variant_name
    ELSE 0

\* RecordOn that leaves fraud_detected alone
RecordOn_UncountedFraud(v, is_fraud_predicted, is_fraud_actual, response_time_ms) ==
    LET v2 == [v EXCEPT !.predictions = @ + 1,
                        !.total_response_time_ms = @ + response_time_ms]
    IN  IF is_fraud_actual = None THEN v2
        ELSE IF is_fraud_predicted = is_fraud_actual[1]
             THEN [v2 EXCEPT !.correct_predictions = @ + 1]
        ELSE IF is_fraud_predicted /\ ~is_fraud_actual[1]
             THEN [v2 EXCEPT !.false_positives = @ + 1]
        ELSE IF ~is_fraud_predicted /\ is_fraud_actual[1]
             THEN [v2 EXCEPT !.false_negatives = @ + 1]
        ELSE v2

\* RecordOn with the two error counters swapped
RecordOn_SwappedErrors(v, is_fraud_predicted, is_fraud_actual, response_time_ms) ==
    LET v1 == [v EXCEPT !.predictions = @ + 1,
                        !.total_response_time_ms = @ + response_time_ms]
        v2 == IF is_fraud_predicted
              THEN [v1 EXCEPT !.fraud_detected = @ + 1] ELSE v1
    IN  IF is_fraud_actual = None THEN v2
        ELSE IF is_fraud_predicted = is_fraud_actual[1]
             THEN [v2 EXCEPT !.correct_predictions = @ + 1]
        ELSE IF is_fraud_predicted /\ ~is_fraud_actual[1]
             THEN [v2 EXCEPT !.false_negatives = @ + 1]
        ELSE [v2 EXCEPT !.false_positives = @ + 1]

\* the counter updates of record_prediction on one variant; is_fraud_actual
\* is None or Some(bool); response times are whole milliseconds, whose float
\* sums are exact
RecordOn(v, is_fraud_predicted, is_fraud_actual, response_time_ms) ==
    LET v1 == [v EXCEPT !.predictions = @ + 1,
                        !.total_response_time_ms = @ + response_time_ms]
        v2 == IF is_fraud_predicted
              THEN [v1 EXCEPT !.fraud_detected = @ + 1] ELSE v1
    IN  IF is_fraud_actual = None THEN v2
        ELSE IF is_fraud_predicted = is_fraud_actual[1]
             THEN [v2 EXCEPT !.correct_predictions = @ + 1]
        ELSE IF is_fraud_predicted /\ ~is_fraud_actual[1]
             THEN [v2 EXCEPT !.false_positives = @ + 1]
        ELSE IF ~is_fraud_predicted /\ is_fraud_actual[1]
             THEN [v2 EXCEPT !.false_negatives = @ + 1]
        ELSE v2

\* record_prediction that counts the outcome on every variant of the experiment
record_prediction_AllVariants(e, variant_name, is_fraud_predicted, is_fraud_actual, response_time_ms) ==
    LET i == FindVariant(e.variants, variant_name)
    IN  IF i = 0 THEN Return(e, None)
        ELSE Return([e EXCEPT !.variants =
                        [j \in 1..Len(e.variants) |->
                            RecordOn(e.variants[j], is_fraud_predicted,
                                     is_fraud_actual, response_time_ms)]], None)

record_prediction(e, variant_name, is_fraud_predicted, is_fraud_actual, response_time_ms) ==
    LET i == FindVariant(e.variants, variant_name)
    IN  IF i = 0 THEN Return(e, None)
        ELSE Return([e EXCEPT !.variants[i] =
                        RecordOn(@, is_fraud_predicted, is_fraud_actual,
                                 response_time_ms)], None)

\* metrics.get('accuracy', 0) of get_variant_metrics(variant): the float
\* correct_predictions / total_labeled, 0 when the metrics have no accuracy
Accuracy(v) ==
    LET total_labeled == v.correct_predictions + v.false_positives
                            + v.false_negatives
    IN  IF v.predictions = 0 THEN FZero
        ELSE IF total_labeled > 0 THEN FDiv(v.correct_predictions, total_labeled)
        ELSE FZero

\* get_variant_metrics(variant): the keys of the dict returned and the values
\* of accuracy, precision and recall as floats (0 where the key is absent).
\* f1_score is kept as the fraction <<2 tp, fraud_detected + tp + fn>>, the
\* real number that 2 * (p * r) / (p + r) rounds; the key is set under
\* "if metrics.get('precision') and metrics.get('recall')", which is false for
\* an absent key and for the float 0.0 (a quotient with numerator 0)
get_variant_metrics(v) ==
    LET total_labeled == v.correct_predictions + v.false_positives
                            + v.false_negatives
        tp == v.fraud_detected - v.false_positives
        base == {"predictions", "fraud_detected", "fraud_rate", "avg_response_time_ms"}
        has_precision == total_labeled > 0 /\ v.fraud_detected > 0
        has_recall == total_labeled > 0 /\ tp + v.false_negatives > 0
        has_f1 == has_precision /\ tp # 0 /\ has_recall /\ tp # 0
    IN  IF v.predictions = 0
        THEN [keys |-> {}, accuracy |-> FZero, precision |-> FZero,
              recall |-> FZero, f1_score |-> <<0, 1>>]
        ELSE [keys |-> base \cup (IF total_labeled > 0 THEN {"accuracy"} ELSE {})
                            \cup (IF has_precision THEN {"precision"} ELSE {})
                            \cup (IF has_recall THEN {"recall"} ELSE {})
                            \cup (IF has_f1 THEN {"f1_score"} ELSE {}),
              accuracy |-> Accuracy(v),
              precision |-> IF has_precision THEN FDiv(tp, v.fraud_detected) ELSE FZero,
              recall |-> IF has_recall THEN FDiv(tp, tp + v.false_negatives) ELSE FZero,
              f1_score |-> IF has_f1 THEN <<2 * tp, v.fraud_detected + tp + v.false_negatives>>
                           ELSE <<0, 1>>]

\* the comparison loop of analyze_results: <<best_variant, best_improvement>>
\* after the variants from index i on, best_variant as an index
RECURSIVE BestFrom(_, _, _, _)
BestFrom(variants, control, i, best) ==
    IF i > Len(variants) THEN best
    ELSE IF variants[i].name = variants[control].name
         THEN BestFrom(variants, control, i + 1, best)
    ELSE LET va == Accuracy(variants[i])
             ca == Accuracy(variants[control])
         IN  IF FLess(ca, va) /\ FLess(best[2], FSub(va, ca))
             THEN BestFrom(variants, control, i + 1, <<i, FSub(va, ca)>>)
             ELSE BestFrom(variants, control, i + 1, best)

\* the two f-strings of the recommendation
DeployText(name) == "Deploy variant '" \o name \o "' as the new model"

KeepText(name) == "Keep current model '" \o name \o "'"

\* analyze_results that recommends keeping the control whoever wins
analyze_results_KeepText(e) ==
    IF e.variants = <<>> THEN Raise(e, "IndexError")
    ELSE LET control == ControlIndex(e.variants)
             best == BestFrom(e.variants, control, 1, <<control, FZero>>)
             best_variant == e.variants[best[1]]
             text == KeepText(e.variants[control].name)
         IN  IF best_variant.name # e.variants[control].name
                /\ FLess(F0_01, best[2])
             THEN Return(e, [winner |-> best_variant.name, recommendation |-> text])
             ELSE Return(e, [winner |-> e.variants[control].name,
                             recommendation |-> text])

\* analyze_results: winner and recommendation of the ExperimentResult (the
\* z-test figures confidence, statistical_significance and metrics_comparison
\* are not part of the state modelled; the result has no other field).
\* self.variants[0] raises IndexError on an empty list.
analyze_results(e) ==
    IF e.variants = <<>> THEN Raise(e, "IndexError")
    ELSE LET control == ControlIndex(e.variants)
             best == BestFrom(e.variants, control, 1, <<control, FZero>>)
             best_variant == e.variants[best[1]]
         IN  IF best_variant.name # e.variants[control].name
                /\ FLess(F0_01, best[2])
             THEN Return(e, [winner |-> best_variant.name,
                             recommendation |-> DeployText(best_variant.name)])
             ELSE Return(e, [winner |-> e.variants[control].name,
                             recommendation |-> KeepText(e.variants[control].name)])

\* ------------------------------------------------------------------- state
VARIABLES
    experiments,     \* ABTestingService.experiments: dict id -> ABTestExperiment
    standalone,      \* an ABTestExperiment a caller constructed itself, by id
    model_loaders,   \* keys of ABTestingService._model_loaders
    clock,           \* datetime.now(), as the number of times it was read
    last,            \* the latest call: operation, target, argument, outcome
    returned,        \* history, per user: the first answer and the first
                     \* Running answer of get_variant_for_user for the
                     \* experiment now registered, with the clock at the call
    threads,         \* per thread inside a method: the experiment, the
                     \* variant it found, the statements left, the value it
                     \* loaded, the result argument of complete
    calls            \* method calls the threads have returned from (after
                     \* at least one statement), and calls they have started

vars == <<experiments, standalone, model_loaders, clock, last, returned,
          threads, calls>>
aux == <<returned, threads, calls>>

\* the experiment object behind a target id
Obj(t) == IF t \in DOMAIN experiments THEN experiments[t] ELSE standalone[t]
Live == DOMAIN experiments \cup DOMAIN standalone

\* a call on the object behind t leaves it as e
Store(t, e) ==
    IF t \in DOMAIN experiments
    THEN /\ experiments' = [experiments EXCEPT ![t] = e]
         /\ UNCHANGED standalone
    ELSE /\ standalone' = [standalone EXCEPT ![t] = e]
         /\ UNCHANGED experiments

\* the arguments of a call, the ones the operation does not take at their
\* defaults
NoArg ==
    [user_id |-> "", variant_name |-> "", is_fraud_predicted |-> FALSE,
     is_fraud_actual |-> None, response_time_ms |-> 0,
     ntreat |-> 0, traffic_split |-> None]

\* what a call gave back: the exception raised ("" when it returned), the
\* variant returned as an index (0 when none) and by name, the
\* ExperimentResult returned, the variant metrics returned (by variant index)
NoRet == [err |-> "", variant |-> 0, name |-> "", result |-> None, metrics |-> <<>>]
Raised(err) == [NoRet EXCEPT !.err = err]

Call(op, id, arg, ret, loaded) ==
    [op |-> op, id |-> id, arg |-> arg, ok |-> ret.err = "", ret |-> ret,
     loaded |-> loaded]

Threads == 1..NumThreads
Idle == [pc |-> "idle", id |-> "", variant |-> 0, todo |-> <<>>, loaded |-> 0,
         arg |-> None, user_id |-> ""]

NoAnswers == [u \in Users |-> [first |-> None, running |-> None]]

\* ABTestingService.__init__; no call made yet
Init ==
    /\ experiments = <<>>
    /\ standalone = <<>>
    /\ model_loaders = {}
    /\ clock = 0
    /\ last = Call("init", "", NoArg, NoRet, FALSE)
    /\ returned = NoAnswers
    /\ threads = [th \in Threads |-> Idle]
    /\ calls = [returned |-> 0, started |-> 0]

\* ----------------------------------------------------- ABTestingService
\* f"variant_{chr(65 + i)}" for i = 0, 1, 2 (1-based here)
VariantName(i) ==
    IF i = 1 THEN "variant_A" ELSE IF i = 2 THEN "variant_B" ELSE "variant_C"

\* the variants create_experiment builds from n model paths and a split list
BuildVariants(n, split) ==
    [i \in 1..n |-> ModelVariant(VariantName(i), split[i], i = 1)]

CreateArg(ntreat, traffic_split) ==
    [NoArg EXCEPT !.ntreat = ntreat, !.traffic_split = traffic_split]
UserArg(user_id) == [NoArg EXCEPT !.user_id = user_id]
Named(name) == [NoRet EXCEPT !.name = name]

\* create_experiment(control_model_path, treatment_model_paths, traffic_split)
\* with ntreat treatment paths; traffic_split is None or Some(list); id is
\* the outcome of str(uuid.uuid4())[:8]
CreateExperiment(id, ntreat, traffic_split) ==
    LET n == 1 + ntreat
        split == IF traffic_split = None THEN [i \in 1..n |-> FDiv100(n)]
                 ELSE traffic_split[1]
    IN  IF Len(split) < n
        THEN /\ last' = Call("create_experiment", id, CreateArg(ntreat, traffic_split), Raised("IndexError"), FALSE)
             /\ UNCHANGED <<experiments, standalone, model_loaders, clock>>
        ELSE /\ UNCHANGED <<standalone, model_loaders, clock>>
             /\ IF SplitInvalid(BuildVariants(n, split))
                THEN /\ last' = Call("create_experiment", id, CreateArg(ntreat, traffic_split), Raised("ValueError"), FALSE)
                     /\ UNCHANGED experiments
                ELSE /\ experiments' =
                          [k \in DOMAIN experiments \cup {id} |->
                              IF k = id
                              THEN NewExperiment(id, BuildVariants(n, split), 1000)
                              ELSE experiments[k]]
                     /\ last' = Call("create_experiment", id, CreateArg(ntreat, traffic_split), NoRet, FALSE)

\* register_model_loader(variant_name, loader)
RegisterModelLoader(variant_name) ==
    /\ model_loaders' = model_loaders \cup {variant_name}
    /\ last' = Call("register_model_loader", "", [NoArg EXCEPT !.variant_name = variant_name], NoRet, FALSE)
    /\ UNCHANGED <<experiments, standalone, clock>>

\* predict_with_ab_test that checks only that the experiment exists
PredictWithABTest_NoStatusCheck(id, user_id, served) ==
    /\ UNCHANGED <<experiments, standalone, model_loaders, clock>>
    /\ IF id \notin DOMAIN experiments
       THEN /\ served
            /\ last' = Call("predict_with_ab_test", id, UserArg(user_id), Raised("ValueError"), FALSE)
       ELSE LET r == get_variant_for_user(experiments[id], user_id)
                name == experiments[id].variants[r.ret].name
            IN  IF name \in model_loaders
                THEN IF served
                     THEN last' = Call("predict_with_ab_test", id, UserArg(user_id), Named(name), TRUE)
                     ELSE last' = Call("predict_with_ab_test", id, UserArg(user_id), Raised("ModelError"), TRUE)
                ELSE /\ served
                     /\ last' = Call("predict_with_ab_test", id, UserArg(user_id), Named(name), FALSE)

\* predict_with_ab_test(experiment_id, user_id, features); when a loader is
\* registered for the variant, loader() and model.predict(features) are
\* external calls that return (served) or raise
PredictWithABTest(id, user_id, served) ==
    /\ UNCHANGED <<experiments, standalone, model_loaders, clock>>
    /\ IF id \notin DOMAIN experiments \/ experiments[id].status # RUNNING
       THEN /\ served
            /\ last' = Call("predict_with_ab_test", id, UserArg(user_id), Raised("ValueError"), FALSE)
       ELSE LET r == get_variant_for_user(experiments[id], user_id)
                name == experiments[id].variants[r.ret].name
            IN  IF name \in model_loaders
                THEN IF served
                     THEN last' = Call("predict_with_ab_test", id, UserArg(user_id), Named(name), TRUE)
                     ELSE last' = Call("predict_with_ab_test", id, UserArg(user_id), Raised("ModelError"), TRUE)
                ELSE /\ served
                     /\ last' = Call("predict_with_ab_test", id, UserArg(user_id), Named(name), FALSE)

\* complete_experiment that returns the result without storing it
CompleteExperiment_NoStore(id) ==
    /\ UNCHANGED <<standalone, model_loaders>>
    /\ IF id \notin DOMAIN experiments
       THEN /\ last' = Call("complete_experiment", id, NoArg, Raised("ValueError"), FALSE)
            /\ UNCHANGED <<experiments, clock>>
       ELSE LET a == analyze_results(experiments[id])
            IN  IF ~a.ok
                THEN /\ last' = Call("complete_experiment", id, NoArg, Raised(a.ret), FALSE)
                     /\ UNCHANGED <<experiments, clock>>
                ELSE /\ clock < MaxClock
                     /\ clock' = clock + 1
                     /\ experiments' = [experiments EXCEPT ![id] =
                                           [@ EXCEPT !.status = COMPLETED,
                                                     !.completed_at = Some(clock')]]
                     /\ last' = Call("complete_experiment", id, NoArg, [NoRet EXCEPT !.result = Some(a.ret)], FALSE)

\* complete_experiment(experiment_id)
CompleteExperiment(id) ==
    /\ UNCHANGED <<standalone, model_loaders>>
    /\ IF id \notin DOMAIN experiments
       THEN /\ last' = Call("complete_experiment", id, NoArg, Raised("ValueError"), FALSE)
            /\ UNCHANGED <<experiments, clock>>
       ELSE LET a == analyze_results(experiments[id])
            IN  IF ~a.ok
                THEN /\ last' = Call("complete_experiment", id, NoArg, Raised(a.ret), FALSE)
                     /\ UNCHANGED <<experiments, clock>>
                ELSE /\ clock < MaxClock
                     /\ clock' = clock + 1
                     /\ experiments' = [experiments EXCEPT ![id] =
                                           complete(@, a.ret, clock').e]
                     /\ last' = Call("complete_experiment", id, NoArg, [NoRet EXCEPT !.result = Some(a.ret)], FALSE)

\* export_experiment_report(experiment_id): the variant_metrics of the report
\* and, for a Completed experiment, the analysis computed anew by
\* analyze_results (the to_dict part of the report is the experiment as it
\* is); it writes nothing
ExportExperimentReport(id) ==
    /\ UNCHANGED <<experiments, standalone, model_loaders, clock>>
    /\ IF id \notin DOMAIN experiments
       THEN last' = Call("export_experiment_report", id, NoArg, Raised("ValueError"), FALSE)
       ELSE LET experiment == experiments[id]
                variant_metrics == [i \in 1..Len(experiment.variants) |->
                                       get_variant_metrics(experiment.variants[i])]
                a == analyze_results(experiment)
            IN  IF experiment.status # COMPLETED
                THEN last' = Call("export_experiment_report", id, NoArg, [NoRet EXCEPT !.metrics = variant_metrics], FALSE)
                ELSE IF ~a.ok
                THEN last' = Call("export_experiment_report", id, NoArg, Raised(a.ret), FALSE)
                ELSE last' = Call("export_experiment_report", id, NoArg, [NoRet EXCEPT !.metrics = variant_metrics, !.result = Some(a.ret)], FALSE)

RECURSIVE PredictionsFrom(_, _)
PredictionsFrom(variants, i) ==
    IF i > Len(variants) THEN 0
    ELSE variants[i].predictions + PredictionsFrom(variants, i + 1)

\* sum(v.predictions for v in variants)
TotalPredictions(variants) == PredictionsFrom(variants, 1)

\* ------------------------------------- calls on an ABTestExperiment object
\* ABTestExperiment(StandaloneId, name, variants=variants), bound by the
\* caller when the constructor returns
Construct(variants) ==
    /\ StandaloneId \notin DOMAIN standalone
    /\ UNCHANGED <<experiments, model_loaders, clock>>
    /\ IF SplitInvalid(variants)
       THEN /\ last' = Call("__init__", StandaloneId, NoArg, Raised("ValueError"), FALSE)
            /\ UNCHANGED standalone
       ELSE /\ standalone' = [k \in {StandaloneId} |->
                                 NewExperiment(StandaloneId, variants, 1000)]
            /\ last' = Call("__init__", StandaloneId, NoArg, NoRet, FALSE)

\* a method call whose outcome is r, on the object behind t; of the methods
\* called this way only get_variant_for_user returns a value
Apply(op, t, arg, r) ==
    /\ Store(t, r.e)
    /\ last' = Call(op, t, arg,
                    IF ~r.ok THEN Raised(r.ret)
                    ELSE IF op = "get_variant_for_user"
                         THEN [NoRet EXCEPT !.variant = r.ret,
                                            !.name = r.e.variants[r.ret].name]
                    ELSE NoRet,
                    FALSE)
    /\ UNCHANGED model_loaders

AddVariant(t, variant) ==
    /\ Len(Obj(t).variants) < MaxVariants
    /\ Apply("add_variant", t, [NoArg EXCEPT !.variant_name = variant.name], add_variant(Obj(t), variant))
    /\ UNCHANGED clock

Start(t) ==
    /\ Obj(t).variants # <<>> => clock < MaxClock
    /\ clock' = IF Obj(t).variants # <<>> THEN clock + 1 ELSE clock
    /\ Apply("start", t, NoArg, start(Obj(t), clock + 1))

Pause(t) ==
    /\ Apply("pause", t, NoArg, pause(Obj(t)))
    /\ UNCHANGED clock

Resume(t) ==
    /\ Apply("resume", t, NoArg, resume(Obj(t)))
    /\ UNCHANGED clock

Complete(t, result) ==
    /\ clock < MaxClock
    /\ clock' = clock + 1
    /\ Apply("complete", t, NoArg, complete(Obj(t), result, clock'))

GetVariantForUser(t, user_id) ==
    /\ Apply("get_variant_for_user", t, UserArg(user_id), get_variant_for_user(Obj(t), user_id))
    /\ UNCHANGED clock

RecordPrediction(t, variant_name, is_fraud_predicted, is_fraud_actual, response_time_ms) ==
    /\ FindVariant(Obj(t).variants, variant_name) # 0
          => TotalPredictions(Obj(t).variants) < MaxPredictions
    /\ Apply("record_prediction", t,
             [NoArg EXCEPT !.variant_name = variant_name,
                           !.is_fraud_predicted = is_fraud_predicted,
                           !.is_fraud_actual = is_fraud_actual,
                           !.response_time_ms = response_time_ms],
             record_prediction(Obj(t), variant_name, is_fraud_predicted,
                               is_fraud_actual, response_time_ms))
    /\ UNCHANGED clock

\* ------------------------------------------------------------------ inputs
SplitInputs == {None, Some(<<F50>>)}
Treatments == 0..1
ResultInputs == {[winner |-> "variant_A",
                  recommendation |-> KeepText("variant_A")]}
LoaderNames == {"variant_B"}
RecordNames == {"variant_A", "variant_B", "variant_Z"}
OptBool == {None, Some(TRUE), Some(FALSE)}
ResponseTimes == {10}

\* the experiment methods a caller reaches through get_experiment(t) or on an
\* object of its own
Lifecycle(t) ==
    \/ Start(t)
    \/ Pause(t)
    \/ Resume(t)
    \/ \E r \in ResultInputs : Complete(t, r)

Methods(t) ==
    \/ Lifecycle(t)
    \/ \E u \in Users : GetVariantForUser(t, u)
    \/ \E v \in RecordNames, p \in BOOLEAN, a \in OptBool, rt \in ResponseTimes :
          RecordPrediction(t, v, p, a, rt)

\* the service with one experiment id drawn by uuid4 (the other id of Ids
\* stays unknown to the registry) and the experiment it owns
Next ==
    /\ \/ \E n \in Treatments, s \in SplitInputs : CreateExperiment("a3f91c07", n, s)
       \/ \E v \in LoaderNames : RegisterModelLoader(v)
       \/ \E id \in Ids, u \in Users, served \in BOOLEAN : PredictWithABTest(id, u, served)
       \/ \E id \in Ids : CompleteExperiment(id)
       \/ \E t \in DOMAIN experiments : Methods(t)
    /\ UNCHANGED aux

Spec == Init /\ [][Next]_vars

\* an experiment a caller constructs and fills by add_variant, with no service
ConstructInputs == {<<>>}
AddInputs == {ModelVariant("variant_A", F50, FALSE),
              ModelVariant("variant_B", F33_33, TRUE)}

NextObj ==
    /\ \/ \E vs \in ConstructInputs : Construct(vs)
       \/ \E t \in DOMAIN standalone, v \in AddInputs : AddVariant(t, v)
       \/ \E t \in DOMAIN standalone : Lifecycle(t)
       \/ \E t \in DOMAIN standalone, u \in Users : GetVariantForUser(t, u)
    /\ UNCHANGED aux

SpecObj == Init /\ [][NextObj]_vars

\* the registry under create_experiment calls with explicit traffic splits,
\* both ids drawn by uuid4
RegistrySplits ==
    {None, Some(<<F100>>), Some(<<F99_99>>), Some(<<F100_01>>),
     Some(<<F99_98>>), Some(<<F100_02>>), Some(<<F50, F50>>),
     Some(<<F50, F49_99>>), Some(<<F50, F50_01>>),
     Some(<<F33_33, F33_33, F33_33>>), Some(<<F33_33, F33_33, F33_34>>)}

NextRegistry ==
    /\ \/ \E id \in Ids, n \in 0..2, s \in RegistrySplits : CreateExperiment(id, n, s)
       \/ \E t \in DOMAIN experiments : Start(t)
    /\ UNCHANGED aux

SpecRegistry == Init /\ [][NextRegistry]_vars

\* one registered experiment under lifecycle calls and router calls, the
\* router's answers kept in returned
Observe(t, user_id) ==
    LET r == get_variant_for_user(Obj(t), user_id)
        answer == Some([running |-> Obj(t).status = RUNNING, at |-> clock,
                        variant |-> r.ret])
        h == returned[user_id]
    IN  returned' =
            IF ~r.ok THEN returned
            ELSE [returned EXCEPT ![user_id] =
                    [first |-> IF h.first = None THEN answer ELSE h.first,
                     running |-> IF h.running = None /\ Obj(t).status = RUNNING
                                 THEN answer ELSE h.running]]

NextAssign ==
    \/ /\ \E n \in Treatments, s \in SplitInputs : CreateExperiment("a3f91c07", n, s)
       /\ returned' = IF last'.ok THEN NoAnswers ELSE returned
       /\ UNCHANGED <<threads, calls>>
    \/ /\ \E t \in DOMAIN experiments : Lifecycle(t)
       /\ UNCHANGED <<returned, threads, calls>>
    \/ /\ CompleteExperiment("a3f91c07")
       /\ UNCHANGED <<returned, threads, calls>>
    \/ /\ \E t \in DOMAIN experiments, u \in Users :
             GetVariantForUser(t, u) /\ Observe(t, u)
       /\ UNCHANGED <<threads, calls>>

SpecAssign == Init /\ [][NextAssign]_vars

\* ------------------------------------------- record_prediction, by threads
\* the += statements of lines 181-193 that a call with these arguments
\* executes, in order, as <<counter, amount>>
Increments(is_fraud_predicted, is_fraud_actual, response_time_ms) ==
    <<<<"predictions", 1>>, <<"total_response_time_ms", response_time_ms>>>>
    \o (IF is_fraud_predicted THEN <<<<"fraud_detected", 1>>>> ELSE <<>>)
    \o (IF is_fraud_actual = None THEN <<>>
        ELSE IF is_fraud_predicted = is_fraud_actual[1]
             THEN <<<<"correct_predictions", 1>>>>
        ELSE IF is_fraud_predicted /\ ~is_fraud_actual[1]
             THEN <<<<"false_positives", 1>>>>
        ELSE IF ~is_fraud_predicted /\ is_fraud_actual[1]
             THEN <<<<"false_negatives", 1>>>>
        ELSE <<>>)

\* a thread enters record_prediction and looks the variant up (line 176); an
\* unknown name returns at once
ThreadCall(th, id, variant_name, is_fraud_predicted, is_fraud_actual, response_time_ms) ==
    /\ threads[th].pc = "idle"
    /\ calls.started < MaxCalls
    /\ id \in DOMAIN experiments
    /\ LET i == FindVariant(experiments[id].variants, variant_name)
       IN  IF i = 0
           THEN UNCHANGED <<threads, calls>>
           ELSE /\ threads' = [threads EXCEPT ![th] =
                      [pc |-> "load", id |-> id, variant |-> i,
                       todo |-> Increments(is_fraud_predicted, is_fraud_actual,
                                           response_time_ms),
                       loaded |-> 0, arg |-> None, user_id |-> ""]]
                /\ calls' = [calls EXCEPT !.started = @ + 1]
    /\ last' = Call("record_prediction", id,
                    [NoArg EXCEPT !.variant_name = variant_name,
                                  !.is_fraud_predicted = is_fraud_predicted,
                                  !.is_fraud_actual = is_fraud_actual,
                                  !.response_time_ms = response_time_ms],
                    NoRet, FALSE)
    /\ UNCHANGED <<experiments, standalone, model_loaders, clock, returned>>

\* the read half of variant.<counter> += amount
ThreadLoad(th) ==
    /\ threads[th].pc = "load"
    /\ threads' = [threads EXCEPT ![th].pc = "store",
                                  ![th].loaded =
                                     experiments[threads[th].id]
                                        .variants[threads[th].variant][Head(threads[th].todo)[1]]]
    /\ UNCHANGED <<experiments, standalone, model_loaders, clock, last, returned, calls>>

\* the write half; after the last statement the call returns
ThreadStore(th) ==
    /\ threads[th].pc = "store"
    /\ LET t == threads[th]
           stmt == Head(t.todo)
       IN  /\ experiments' = [experiments EXCEPT
                                 ![t.id].variants[t.variant][stmt[1]] = t.loaded + stmt[2]]
           /\ IF Len(t.todo) = 1
              THEN /\ threads' = [threads EXCEPT ![th] = Idle]
                   /\ calls' = [calls EXCEPT !.returned = @ + 1]
              ELSE /\ threads' = [threads EXCEPT ![th].pc = "load",
                                                 ![th].todo = Tail(t.todo)]
                   /\ UNCHANGED calls
    /\ UNCHANGED <<standalone, model_loaders, clock, last, returned>>

ThreadNames == {"variant_A", "variant_B", "variant_Z"}

\* one experiment set up by one thread, then record_prediction calls from
\* several threads
NextThreads ==
    \/ /\ "a3f91c07" \notin DOMAIN experiments
       /\ CreateExperiment("a3f91c07", 1, None)
       /\ UNCHANGED aux
    \/ /\ \A th \in Threads : threads[th].pc = "idle"
       /\ calls.started = 0
       /\ \E t \in DOMAIN experiments : Start(t)
       /\ UNCHANGED aux
    \/ \E th \in Threads, id \in DOMAIN experiments, v \in ThreadNames,
          p \in BOOLEAN, a \in {None, Some(FALSE)}, rt \in ResponseTimes :
          ThreadCall(th, id, v, p, a, rt)
    \/ \E th \in Threads : ThreadLoad(th)
    \/ \E th \in Threads : ThreadStore(th)

SpecThreads == Init /\ [][NextThreads]_vars

\* ------------------------------------------------ analysis of the counters
\* analyze_results() called on the experiment behind t
AnalyzeResults(t) ==
    /\ LET r == analyze_results(Obj(t))
       IN  last' = Call("analyze_results", t, NoArg,
                        IF r.ok THEN [NoRet EXCEPT !.result = Some(r.ret)]
                        ELSE Raised(r.ret),
                        FALSE)
    /\ UNCHANGED <<experiments, standalone, model_loaders, clock>>

\* counters of a variant as <<correct, labelled>>: the variant after
\* labelled calls record_prediction(name, True, actual, 10.0), correct of
\* them with actual = True
AccuracyInputs == {<<0, 0>>, <<1, 2>>, <<50, 100>>, <<51, 100>>, <<52, 100>>, <<1, 1>>}

WithCounters(v, c) ==
    [v EXCEPT !.predictions = c[2],
              !.fraud_detected = c[2],
              !.correct_predictions = c[1],
              !.false_positives = c[2] - c[1],
              !.total_response_time_ms = 10 * c[2]]

\* the service with one Draft experiment of two or three variants, created by
\* create_experiment, whose variants have recorded labelled predictions
InitAnalyze ==
    /\ \E n \in 2..3, counters \in [1..3 -> AccuracyInputs] :
          experiments =
             [k \in {"a3f91c07"} |->
                 NewExperiment(k,
                    [i \in 1..n |->
                        WithCounters(BuildVariants(n, [j \in 1..n |-> FDiv100(n)])[i],
                                     counters[i])],
                    1000)]
    /\ standalone = <<>>
    /\ model_loaders = {}
    /\ clock = 0
    /\ last = Call("init", "", NoArg, NoRet, FALSE)
    /\ returned = NoAnswers
    /\ threads = [th \in Threads |-> Idle]
    /\ calls = [returned |-> 0, started |-> 0]

NextAnalyze ==
    /\ \/ \E t \in DOMAIN experiments : AnalyzeResults(t)
       \/ \E t \in DOMAIN experiments : Start(t)
       \/ \E id \in DOMAIN experiments : CompleteExperiment(id)
    /\ UNCHANGED aux

SpecAnalyze == InitAnalyze /\ [][NextAnalyze]_vars

\* ------------------------------------- lifecycle transitions, by threads
\* the attribute writes of start, pause, resume and complete, in the order of
\* the source; <<>> when the method raises before its first write
Writes(e, op) ==
    CASE op = "start" ->
            IF e.variants = <<>> THEN <<>>
            ELSE <<"status = RUNNING", "started_at = now">>
      [] op = "pause" -> <<"status = PAUSED">>
      [] op = "resume" ->
            IF e.status # PAUSED THEN <<>> ELSE <<"status = RUNNING">>
      [] op = "complete" ->
            <<"status = COMPLETED", "completed_at = now", "result = result">>

\* a thread enters a lifecycle method of experiment t and passes its checks
TransitionCall(th, t, op, result) ==
    /\ threads[th].pc = "idle"
    /\ calls.started < MaxCalls
    /\ t \in DOMAIN experiments
    /\ LET body == Writes(experiments[t], op)
       IN  /\ threads' = IF body = <<>> THEN threads
                         ELSE [threads EXCEPT ![th] =
                                 [pc |-> "write", id |-> t, variant |-> 0,
                                  todo |-> body, loaded |-> 0,
                                  arg |-> IF op = "complete" THEN Some(result)
                                          ELSE None,
                                  user_id |-> ""]]
           /\ last' = Call(op, t, NoArg,
                           IF body = <<>> THEN Raised("ValueError") ELSE NoRet,
                           FALSE)
    /\ calls' = [calls EXCEPT !.started = @ + 1]
    /\ UNCHANGED <<experiments, standalone, model_loaders, clock, returned>>

\* the thread executes its next attribute write; after the last one the
\* method returns
TransitionWrite(th) ==
    /\ threads[th].pc = "write"
    /\ LET t == threads[th]
           w == Head(t.todo)
           now == w \in {"started_at = now", "completed_at = now"}
       IN  /\ now => clock < MaxClock
           /\ clock' = IF now THEN clock + 1 ELSE clock
           /\ experiments' = [experiments EXCEPT ![t.id] =
                 CASE w = "status = RUNNING" -> [@ EXCEPT !.status = RUNNING]
                   [] w = "status = PAUSED" -> [@ EXCEPT !.status = PAUSED]
                   [] w = "status = COMPLETED" -> [@ EXCEPT !.status = COMPLETED]
                   [] w = "started_at = now" -> [@ EXCEPT !.started_at = Some(clock + 1)]
                   [] w = "completed_at = now" -> [@ EXCEPT !.completed_at = Some(clock + 1)]
                   [] w = "result = result" -> [@ EXCEPT !.result = t.arg]]
           /\ IF Len(t.todo) = 1
              THEN /\ threads' = [threads EXCEPT ![th] = Idle]
                   /\ calls' = [calls EXCEPT !.returned = @ + 1]
              ELSE /\ threads' = [threads EXCEPT ![th].todo = Tail(t.todo)]
                   /\ UNCHANGED calls
    /\ UNCHANGED <<standalone, model_loaders, last, returned>>

\* one experiment created by one thread, then lifecycle calls from several
\* threads
NextTransitions ==
    \/ /\ "a3f91c07" \notin DOMAIN experiments
       /\ \E n \in Treatments : CreateExperiment("a3f91c07", n, None)
       /\ UNCHANGED aux
    \/ \E th \in Threads, t \in DOMAIN experiments, op \in {"start", "pause", "resume", "complete"},
          r \in ResultInputs : TransitionCall(th, t, op, r)
    \/ \E th \in Threads : TransitionWrite(th)

SpecTransitions == Init /\ [][NextTransitions]_vars

\* predict_with_ab_test run by a thread, up to its status check: an unknown
\* or not Running experiment raises ValueError, otherwise the thread goes on
\* to experiment.get_variant_for_user(user_id)
PredictCheck(th, id, user_id) ==
    /\ threads[th].pc = "idle"
    /\ calls.started < MaxCalls
    /\ calls' = [calls EXCEPT !.started = @ + 1]
    /\ IF id \notin DOMAIN experiments \/ experiments[id].status # RUNNING
       THEN /\ last' = Call("predict_with_ab_test", id, UserArg(user_id), Raised("ValueError"), FALSE)
            /\ UNCHANGED threads
       ELSE /\ threads' = [threads EXCEPT ![th] =
                             [Idle EXCEPT !.pc = "route", !.id = id, !.user_id = user_id]]
            /\ UNCHANGED last
    /\ UNCHANGED <<experiments, standalone, model_loaders, clock, returned>>

\* the rest of predict_with_ab_test: get_variant_for_user, which reads the
\* status again, then the model loader of the variant, and the return
PredictRoute(th, served) ==
    /\ threads[th].pc = "route"
    /\ LET id == threads[th].id
           user_id == threads[th].user_id
           r == get_variant_for_user(experiments[id], user_id)
       IN  IF ~r.ok
           THEN /\ served
                /\ last' = Call("predict_with_ab_test", id, UserArg(user_id), Raised(r.ret), FALSE)
           ELSE LET name == experiments[id].variants[r.ret].name
                IN  IF name \in model_loaders
                    THEN IF served
                         THEN last' = Call("predict_with_ab_test", id, UserArg(user_id), Named(name), TRUE)
                         ELSE last' = Call("predict_with_ab_test", id, UserArg(user_id), Raised("ModelError"), TRUE)
                    ELSE /\ served
                         /\ last' = Call("predict_with_ab_test", id, UserArg(user_id), Named(name), FALSE)
    /\ threads' = [threads EXCEPT ![th] = Idle]
    /\ calls' = [calls EXCEPT !.returned = @ + 1]
    /\ UNCHANGED <<experiments, standalone, model_loaders, clock, returned>>

\* one experiment created and started by one thread, then predictions and
\* lifecycle calls from several threads
NextPredict ==
    \/ /\ "a3f91c07" \notin DOMAIN experiments
       /\ CreateExperiment("a3f91c07", 1, None)
       /\ UNCHANGED aux
    \/ /\ \A th \in Threads : threads[th].pc = "idle"
       /\ calls.started = 0
       /\ \/ \E t \in DOMAIN experiments : Start(t)
          \/ \E v \in LoaderNames : RegisterModelLoader(v)
       /\ UNCHANGED aux
    \/ \E th \in Threads, id \in Ids, u \in Users : PredictCheck(th, id, u)
    \/ \E th \in Threads, served \in BOOLEAN : PredictRoute(th, served)
    \/ \E th \in Threads, t \in DOMAIN experiments, op \in {"pause", "resume", "complete"},
          r \in ResultInputs : TransitionCall(th, t, op, r)
    \/ \E th \in Threads : TransitionWrite(th)

SpecPredict == Init /\ [][NextPredict]_vars

\* traffic_split lists of whole numbers, as floats; the validation looks at
\* the sum only, so a list with a percentage above 100 and a negative one
\* that sum to 100 is accepted like the others
WholeSplits ==
    {Some(<<FromInt(100)>>), Some(<<FromInt(50), FromInt(50)>>),
     Some(<<FromInt(70), FromInt(30)>>), Some(<<FromInt(0), FromInt(100)>>),
     Some(<<FromInt(100), FromInt(0)>>), Some(<<FromInt(60), FromInt(30)>>),
     Some(<<FromInt(150), FromInt(0 - 50)>>),
     Some(<<FromInt(30), FromInt(30), FromInt(40)>>),
     Some(<<FromInt(1), FromInt(0), FromInt(99)>>)}

\* one experiment created with a whole-number split, started, paused and
\* asked for the variants of users
NextRouting ==
    /\ \/ \E n \in 0..2, s \in WholeSplits : CreateExperiment("a3f91c07", n, s)
       \/ \E t \in DOMAIN experiments : Start(t)
       \/ \E t \in DOMAIN experiments : Pause(t)
       \/ \E t \in DOMAIN experiments, u \in Users : GetVariantForUser(t, u)
    /\ UNCHANGED aux

SpecRouting == Init /\ [][NextRouting]_vars

\* two experiments of two variants each, created once, with labelled
\* predictions recorded on both
NextRecord ==
    /\ \/ \E id \in Ids : id \notin DOMAIN experiments /\ CreateExperiment(id, 1, None)
       \/ "a3f91c07" \in DOMAIN experiments /\ Start("a3f91c07")
       \/ \E t \in DOMAIN experiments, v \in RecordNames, p \in BOOLEAN, a \in {Some(FALSE)}, rt \in ResponseTimes :
             RecordPrediction(t, v, p, a, rt)
    /\ UNCHANGED aux

SpecRecord == Init /\ [][NextRecord]_vars

\* the service with one experiment of two variants: predictions recorded
\* before and after completion, and the report exported
ReportNames == {"variant_A", "variant_B"}

NextReport ==
    /\ \/ CreateExperiment("a3f91c07", 1, None)
       \/ \E t \in DOMAIN experiments : Start(t)
       \/ \E t \in DOMAIN experiments, v \in ReportNames, p \in BOOLEAN, a \in OptBool, rt \in ResponseTimes :
             RecordPrediction(t, v, p, a, rt)
       \/ \E id \in Ids : CompleteExperiment(id)
       \/ \E id \in Ids : ExportExperimentReport(id)
    /\ UNCHANGED aux

SpecReport == Init /\ [][NextReport]_vars

\* ------------------------------------------------------------------ claims
LifecycleOps == {"start", "pause", "resume", "complete"}

\* the step is a call of op on the registered experiment t
Called(op, t) == last'.op = op /\ last'.id = t /\ t \in DOMAIN experiments

\* C1: Completed and Cancelled are absorbing: once an experiment is Completed
\* (or Cancelled), every later start, pause, resume or complete on it fails
\* and its status stays what it was.
C1_TerminalAbsorbing ==
    [][\A t \in DOMAIN experiments, op \in LifecycleOps :
          (Called(op, t) /\ experiments[t].status \in {COMPLETED, CANCELLED})
          => /\ ~last'.ok
             /\ experiments'[t].status = experiments[t].status]_vars

\* C3: a predict_with_ab_test call that returns records exactly one outcome
\* (the predictions counter of the returned variant grows by 1, no other
\* counter of the experiment's variants' predictions changes); a call that
\* raises changes no counter.
C3_PredictRecordsOneOutcome ==
    [][\A t \in DOMAIN experiments :
          Called("predict_with_ab_test", t)
          => IF last'.ok
             THEN \A i \in 1..Len(experiments[t].variants) :
                     experiments'[t].variants[i].predictions =
                        experiments[t].variants[i].predictions
                        + (IF i = FindVariant(experiments[t].variants, last'.ret.name)
                           THEN 1 ELSE 0)
             ELSE experiments' = experiments]_vars

Delta(w, v, field) == w[field] - v[field]

\* C8: a record_prediction call for an existing variant adds 1 to its
\* predictions, adds 1 to fraud_detected exactly when fraud was predicted,
\* and, when the actual label is given, adds 1 to exactly one of
\* correct_predictions (predicted = actual), false_positives (predicted,
\* not actual), false_negatives (not predicted, actual); with no label none
\* of the three changes.
C8_RecordCounts ==
    [][\A t \in DOMAIN experiments :
          (Called("record_prediction", t)
             /\ FindVariant(experiments[t].variants, last'.arg.variant_name) # 0)
          => LET i == FindVariant(experiments[t].variants, last'.arg.variant_name)
                 v == experiments[t].variants[i]
                 w == experiments'[t].variants[i]
                 predicted == last'.arg.is_fraud_predicted
                 actual == last'.arg.is_fraud_actual
                 dc == Delta(w, v, "correct_predictions")
                 dfp == Delta(w, v, "false_positives")
                 dfn == Delta(w, v, "false_negatives")
             IN  /\ Delta(w, v, "predictions") = 1
                 /\ Delta(w, v, "fraud_detected") = (IF predicted THEN 1 ELSE 0)
                 /\ IF actual = None
                    THEN dc = 0 /\ dfp = 0 /\ dfn = 0
                    ELSE /\ dc = (IF predicted = actual[1] THEN 1 ELSE 0)
                         /\ dfp = (IF predicted /\ ~actual[1] THEN 1 ELSE 0)
                         /\ dfn = (IF ~predicted /\ actual[1] THEN 1 ELSE 0)
                         /\ dc + dfp + dfn = 1]_vars

\* C8 witness: a false negative was just recorded on a variant that already
\* had a prediction
C8_Witness ==
    /\ last.op = "record_prediction"
    /\ last.id \in DOMAIN experiments
    /\ ~last.arg.is_fraud_predicted /\ last.arg.is_fraud_actual = Some(TRUE)
    /\ \E i \in 1..Len(experiments[last.id].variants) :
          /\ experiments[last.id].variants[i].name = last.arg.variant_name
          /\ experiments[last.id].variants[i].false_negatives = 1
          /\ experiments[last.id].variants[i].predictions = 2

\* C9: predict_with_ab_test for an unknown experiment id, or for an
\* experiment that is not Running, raises, invokes no model loader and
\* leaves the registry, every experiment and the loaders as they were.
C9_PredictRejected ==
    [][(last'.op = "predict_with_ab_test"
          /\ (last'.id \notin DOMAIN experiments
                \/ experiments[last'.id].status # RUNNING))
       => /\ ~last'.ok
          /\ ~last'.loaded
          /\ experiments' = experiments
          /\ model_loaders' = model_loaders]_vars

\* C9 witness: a predict was refused on a registered, paused experiment
\* while a model loader was registered for one of its variants
C9_Witness ==
    /\ last.op = "predict_with_ab_test"
    /\ ~last.ok
    /\ last.id \in DOMAIN experiments
    /\ experiments[last.id].status = PAUSED
    /\ \E i \in 1..Len(experiments[last.id].variants) :
          experiments[last.id].variants[i].name \in model_loaders

\* C10: an experiment becomes Completed only from Running or Paused:
\* complete(result) and complete_experiment(id) on a Draft experiment fail
\* and set neither status, completed_at nor the stored result.
C10_NoCompleteFromDraft ==
    [][\A t \in DOMAIN experiments, op \in {"complete", "complete_experiment"} :
          (Called(op, t) /\ experiments[t].status = DRAFT)
          => /\ ~last'.ok
             /\ experiments'[t].status = DRAFT
             /\ experiments'[t].completed_at = None
             /\ experiments'[t].result = None]_vars

\* the decimal a float literal was written as, in hundredths of a percent
Hundredths(f) ==
    CASE f = FZero -> 0
      [] f = F33_33 -> 3333
      [] f = F33_34 -> 3334
      [] f = F49_99 -> 4999
      [] f = F50 -> 5000
      [] f = F50_01 -> 5001
      [] f = F99_98 -> 9998
      [] f = F99_99 -> 9999
      [] f = F100 -> 10000
      [] f = F100_01 -> 10001
      [] f = F100_02 -> 10002

RECURSIVE DecimalSum(_)
DecimalSum(variants) ==
    IF variants = <<>> THEN 0
    ELSE Hundredths(Head(variants).traffic_percentage) + DecimalSum(Tail(variants))

Within001(variants) ==
    DecimalSum(variants) \in {9999, 10000, 10001}

\* C5: in every reachable state, every experiment with a non-empty variant
\* list has traffic percentages that sum to 100 within 0.01 (after
\* construction and after every add_variant call, returned or raised).
C5_SplitInvariant ==
    \A t \in Live : Obj(t).variants # <<>> => Within001(Obj(t).variants)

\* the float cumulative sum of the first i traffic percentages, as the loop
\* of get_variant_for_user accumulates it
Cumulative(variants, i) == SumTraffic(SubSeq(variants, 1, i))

\* the first variant in insertion order whose cumulative percentage is
\* strictly above the bucket, the last variant when there is none
FirstAbove(variants, bucket) ==
    LET above == {i \in 1..Len(variants) :
                     FLess(FromInt(bucket), Cumulative(variants, i))}
    IN  IF above = {} THEN Len(variants)
        ELSE CHOOSE i \in above : \A j \in above : i <= j

\* C7: for a Running experiment and every bucket 0..99, the walk of
\* get_variant_for_user returns the first variant in insertion order whose
\* cumulative traffic percentage strictly exceeds the bucket, and the last
\* variant when no cumulative sum does; a call for a user returns that
\* variant for the user's hash bucket.
C7_BucketWalk ==
    \A t \in Live :
        Obj(t).status = RUNNING
        => /\ \A b \in 0..99 :
                 AssignBucket(Obj(t).variants, b) = FirstAbove(Obj(t).variants, b)
           /\ (last.op = "get_variant_for_user" /\ last.id = t)
                 => /\ last.ok
                    /\ last.ret.variant = FirstAbove(Obj(t).variants, HashBucket(last.arg.user_id, t))

\* C6: create_experiment with traffic percentages whose sum differs from 100
\* by more than 0.01 fails and leaves the registry unchanged; with a sum of
\* exactly 100, or of 99.99 or 100.01, it succeeds and registers the
\* experiment.  (The sum is that of the percentages of the variants built,
\* as the decimals the caller wrote; calls whose split list is shorter than
\* the model list are not covered.)
C6_CreateSplitTolerance ==
    [][(last'.op = "create_experiment"
          /\ last'.arg.traffic_split # None
          /\ Len(last'.arg.traffic_split[1]) >= 1 + last'.arg.ntreat)
       => LET n == 1 + last'.arg.ntreat
              used == BuildVariants(n, last'.arg.traffic_split[1])
          IN  IF Within001(used)
              THEN /\ last'.ok
                   /\ last'.id \in DOMAIN experiments'
                   /\ experiments'[last'.id].variants = used
                   /\ experiments'[last'.id].status = DRAFT
              ELSE /\ ~last'.ok
                   /\ experiments' = experiments]_vars

\* C4 (as claimed): for a fixed (user_id, experiment) pair
\* get_variant_for_user returns the same variant at every point of the
\* experiment's lifetime, whatever lifecycle calls happen between two calls.
C4_SameVariantForLife ==
    [][\A t \in DOMAIN experiments :
          (Called("get_variant_for_user", t) /\ last'.ok
             /\ returned[last'.arg.user_id].first # None)
          => last'.ret.variant = returned[last'.arg.user_id].first[1].variant]_vars

\* C4 (amended): the calls made while the experiment is Running return the
\* same variant for the same user, whatever lifecycle calls happen between
\* them; a call made while it is not Running returns the control fallback.
C4_SameVariantWhileRunning ==
    [][\A t \in DOMAIN experiments :
          (Called("get_variant_for_user", t) /\ last'.ok)
          => IF experiments[t].status = RUNNING
             THEN returned[last'.arg.user_id].running # None
                     => last'.ret.variant = returned[last'.arg.user_id].running[1].variant
             ELSE /\ experiments[t].variants[last'.ret.variant].is_control
                  /\ \A j \in 1..(last'.ret.variant - 1) :
                        ~experiments[t].variants[j].is_control]_vars

\* C4 witness: a user whose first answer, given while the experiment was not
\* Running, was the control has just been routed to the treatment variant,
\* as in an earlier Running period
C4_Witness ==
    /\ last.op = "get_variant_for_user" /\ last.ok /\ last.ret.variant = 2
    /\ last.id \in DOMAIN experiments
    /\ experiments[last.id].status = RUNNING
    /\ returned[last.arg.user_id].first # None
    /\ ~returned[last.arg.user_id].first[1].running
    /\ returned[last.arg.user_id].first[1].variant = 1
    /\ returned[last.arg.user_id].running # None
    /\ returned[last.arg.user_id].running[1].variant = 2
    /\ returned[last.arg.user_id].running[1].at < clock

\* C2: no lost updates: when the N record_prediction calls the threads made
\* for existing variants of the experiment have all returned, whatever the
\* interleaving, the predictions counters of its variants sum to exactly N.
C2_NoLostUpdates ==
    \A id \in DOMAIN experiments :
        (\A th \in Threads : threads[th].pc = "idle")
        => TotalPredictions(experiments[id].variants) = calls.returned

\* C11: when complete_experiment(id) returns for a Running or Paused
\* experiment, the experiment is Completed, completed_at is set and the
\* result stored on it is the result returned, the analysis of the variant
\* counters as they stood at the call (which the call leaves as they were);
\* for an unknown id the call fails and changes nothing.
C11_CompleteExperimentResult ==
    [][last'.op = "complete_experiment"
       => IF last'.id \notin DOMAIN experiments
          THEN /\ ~last'.ok
               /\ experiments' = experiments
               /\ model_loaders' = model_loaders
               /\ clock' = clock
          ELSE (last'.ok /\ experiments[last'.id].status \in {RUNNING, PAUSED})
               => LET e == experiments[last'.id]
                      f == experiments'[last'.id]
                  IN  /\ f.status = COMPLETED
                      /\ f.completed_at # None
                      /\ f.result # None
                      /\ f.result = last'.ret.result
                      /\ f.result[1] = analyze_results(e).ret
                      /\ f.variants = e.variants]_vars

\* C11 witness: complete_experiment has just returned for an experiment
\* started at time 1 (and so Running or Paused since), with the treatment as
\* the winner its counters give, stored and returned
C11_Witness ==
    /\ last.op = "complete_experiment" /\ last.ok
    /\ last.id \in DOMAIN experiments
    /\ experiments[last.id].status = COMPLETED
    /\ experiments[last.id].started_at = Some(1)
    /\ experiments[last.id].completed_at = Some(2)
    /\ clock = 2
    /\ experiments[last.id].result = last.ret.result
    /\ last.ret.result # None
    /\ last.ret.result[1].winner = "variant_B"

\* C12: pause() is accepted only when the status is Running, moving it to
\* Paused; in any other status it fails and leaves the status unchanged.
C12_PauseOnlyWhenRunning ==
    [][\A t \in DOMAIN experiments :
          Called("pause", t)
          => IF experiments[t].status = RUNNING
             THEN last'.ok /\ experiments'[t].status = PAUSED
             ELSE ~last'.ok /\ experiments'[t].status = experiments[t].status]_vars

\* C13: resume() is accepted only when the status is Paused, moving it to
\* Running; in any other status it raises and leaves the experiment (status,
\* started_at, completed_at, every counter) unchanged.
C13_ResumeOnlyWhenPaused ==
    [][\A t \in DOMAIN experiments :
          Called("resume", t)
          => IF experiments[t].status = PAUSED
             THEN /\ last'.ok
                  /\ experiments'[t] = [experiments[t] EXCEPT !.status = RUNNING]
             ELSE /\ ~last'.ok
                  /\ experiments'[t] = experiments[t]]_vars

\* C13 witness: resume has just been refused on a Completed experiment that
\* has timestamps and recorded predictions
C13_Witness ==
    /\ last.op = "resume" /\ ~last.ok
    /\ last.id \in DOMAIN experiments
    /\ experiments[last.id].status = COMPLETED
    /\ experiments[last.id].started_at # None
    /\ experiments[last.id].completed_at # None
    /\ TotalPredictions(experiments[last.id].variants) > 0

\* C15: start() moves an experiment to Running only from Draft: on a Running
\* or Paused experiment it fails and leaves status and started_at unchanged,
\* so that a started_at once written is never written again by start().
C15_StartOnlyFromDraft ==
    [][\A t \in DOMAIN experiments :
          Called("start", t)
          => /\ experiments[t].status \in {RUNNING, PAUSED}
                => /\ ~last'.ok
                   /\ experiments'[t].status = experiments[t].status
                   /\ experiments'[t].started_at = experiments[t].started_at
             /\ experiments[t].started_at # None
                => experiments'[t].started_at = experiments[t].started_at]_vars

\* C14: start() on an experiment whose variant list is empty fails and is
\* not partially applied: the experiment is left as it was, its status
\* unchanged (Draft stays Draft) and started_at unset.
C14_StartOnEmptyFails ==
    [][\A t \in DOMAIN standalone :
          (last'.op = "start" /\ last'.id = t /\ standalone[t].variants = <<>>)
          => /\ ~last'.ok
             /\ standalone'[t] = standalone[t]
             /\ standalone'[t].started_at = None
             /\ standalone[t].status = DRAFT => standalone'[t].status = DRAFT]_vars

\* C14 witness: start has just been refused on a Draft experiment without
\* variants
C14_Witness ==
    /\ last.op = "start" /\ ~last.ok
    /\ last.id \in DOMAIN standalone
    /\ standalone[last.id].variants = <<>>
    /\ standalone[last.id].status = DRAFT
    /\ standalone[last.id].started_at = None

\* C16: Cancelled is reachable from every non-terminal state: whenever an
\* experiment is Draft, Running or Paused, some operation of the program
\* moves its status to Cancelled.
C16_CancelReachable ==
    \A t \in DOMAIN experiments :
        experiments[t].status \in {DRAFT, RUNNING, PAUSED}
        => ENABLED (Next /\ t \in DOMAIN experiments'
                         /\ experiments'[t].status = CANCELLED)

\* C17: transitions on one experiment are mutually exclusive and atomic to
\* observers: no two threads are inside start, pause, resume or complete of
\* the same experiment at once, and in no state is an experiment Completed
\* while its completed_at or its stored result is unset.
C17_TransitionsAtomic ==
    /\ \A th1, th2 \in Threads :
          (th1 # th2 /\ threads[th1].pc = "write" /\ threads[th2].pc = "write")
          => threads[th1].id # threads[th2].id
    /\ \A t \in DOMAIN experiments :
          experiments[t].status = COMPLETED
          => /\ experiments[t].completed_at # None
             /\ experiments[t].result # None

\* the variant the fallback is claimed to return: the first one marked
\* is_control, the first in list order when none is marked
FirstControl(variants) ==
    LET marked == {i \in 1..Len(variants) : variants[i].is_control}
    IN  IF marked = {} THEN 1
        ELSE CHOOSE i \in marked : \A j \in marked : i <= j

\* C18 (as claimed): for every experiment that is not Running,
\* get_variant_for_user returns, for every user_id, the first variant marked
\* is_control, or the first variant in list order when none is marked.
C18_FallbackControl ==
    \A t \in Live :
        Obj(t).status # RUNNING
        => /\ \A u \in Users :
                 /\ get_variant_for_user(Obj(t), u).ok
                 /\ get_variant_for_user(Obj(t), u).ret = FirstControl(Obj(t).variants)
           /\ (last.op = "get_variant_for_user" /\ last.id = t)
                 => /\ last.ok
                    /\ last.ret.variant = FirstControl(Obj(t).variants)

\* C18 (amended): the same for every experiment that is not Running and has
\* at least one variant; on an experiment without variants the call raises
\* IndexError.
C18_FallbackControlNonEmpty ==
    \A t \in Live :
        Obj(t).status # RUNNING
        => IF Obj(t).variants = <<>>
           THEN /\ \A u \in Users : ~get_variant_for_user(Obj(t), u).ok
                /\ (last.op = "get_variant_for_user" /\ last.id = t)
                      => last.ret.err = "IndexError"
           ELSE /\ \A u \in Users :
                      /\ get_variant_for_user(Obj(t), u).ok
                      /\ get_variant_for_user(Obj(t), u).ret = FirstControl(Obj(t).variants)
                /\ (last.op = "get_variant_for_user" /\ last.id = t)
                      => /\ last.ok
                         /\ last.ret.variant = FirstControl(Obj(t).variants)

\* C18 witness: a Paused experiment whose control is its second variant has
\* just answered with that variant
C18_Witness ==
    /\ last.op = "get_variant_for_user" /\ last.ok
    /\ last.id \in Live
    /\ Obj(last.id).status = PAUSED
    /\ Len(Obj(last.id).variants) >= 2
    /\ ~Obj(last.id).variants[1].is_control
    /\ Obj(last.id).variants[2].is_control
    /\ last.ret.variant = 2

\* what get_variant_for_user reads of a variant list
Config(variants) ==
    [i \in 1..Len(variants) |->
        [name |-> variants[i].name,
         traffic_percentage |-> variants[i].traffic_percentage,
         is_control |-> variants[i].is_control]]

\* C19: get_variant_for_user is pure: a call changes no status, timestamp,
\* variant list or counter; it returns the value of a function of the
\* experiment and the user_id; and no step that keeps the status and the
\* variant list (a call for another user, a record_prediction call) changes
\* that value for any user, so repeated calls return the same variant.
C19_RouterPure ==
    [][\A t \in DOMAIN experiments :
          /\ Called("get_variant_for_user", t)
                => /\ experiments' = experiments
                   /\ standalone' = standalone
                   /\ model_loaders' = model_loaders
                   /\ clock' = clock
                   /\ last'.ok
                         => last'.ret.variant =
                               get_variant_for_user(experiments[t], last'.arg.user_id).ret
          /\ (/\ t \in DOMAIN experiments'
              /\ experiments'[t].status = experiments[t].status
              /\ Config(experiments'[t].variants) = Config(experiments[t].variants))
                => \A u \in Users :
                      get_variant_for_user(experiments'[t], u).ret =
                         get_variant_for_user(experiments[t], u).ret]_vars

\* C19 witness: a Running experiment with two recorded predictions has just
\* answered a user with its second variant
C19_Witness ==
    /\ last.op = "get_variant_for_user" /\ last.ok
    /\ last.id \in DOMAIN experiments
    /\ experiments[last.id].status = RUNNING
    /\ TotalPredictions(experiments[last.id].variants) = 2
    /\ experiments[last.id].variants[1].predictions > 0
    /\ last.ret.variant = 2

\* accuracy as the claim defines it: correct / labelled outcomes as an exact
\* fraction <<numerator, denominator>>, 0 when nothing is labelled
ExactAccuracy(v) ==
    LET labelled == v.correct_predictions + v.false_positives + v.false_negatives
    IN  IF labelled = 0 THEN <<0, 1>> ELSE <<v.correct_predictions, labelled>>

\* the accuracy of v exceeds the accuracy of c by more than 0.01
ExceedsBy001(v, c) ==
    LET a == ExactAccuracy(v)
        b == ExactAccuracy(c)
    IN  (a[1] * b[2] - b[1] * a[2]) * 100 > a[2] * b[2]

\* the accuracy of v is at least the accuracy of w
AtLeastAsAccurate(v, w) ==
    ExactAccuracy(v)[1] * ExactAccuracy(w)[2] >= ExactAccuracy(w)[1] * ExactAccuracy(v)[2]

\* C20: analyze_results names a non-control variant as winner only if that
\* variant's accuracy exceeds the control's by more than 0.01, and then it is
\* a treatment with the largest improvement; in every other case, equal
\* accuracies included, the winner is the control.
C20_WinnerThreshold ==
    (last.op \in {"analyze_results", "complete_experiment"} /\ last.ok
        /\ last.id \in DOMAIN experiments)
    => LET vs == experiments[last.id].variants
           control == FirstControl(vs)
           treatments == (1..Len(vs)) \ {control}
           above == {i \in treatments : ExceedsBy001(vs[i], vs[control])}
           winner == last.ret.result[1].winner
       IN  IF above = {} THEN winner = vs[control].name
           ELSE \E i \in above :
                   /\ winner = vs[i].name
                   /\ \A j \in treatments : AtLeastAsAccurate(vs[i], vs[j])

\* a step that returned an analysis result of registry experiment t
Analyzed(t) ==
    /\ last'.op \in {"analyze_results", "complete_experiment"}
    /\ last'.id = t
    /\ t \in DOMAIN experiments
    /\ last'.ok

\* C21, as stated: the recommendation of every analysis result is the text
\* Keep current model '<control>' exactly when the winner is the control and
\* the text Deploy variant '<name>' naming the winner exactly when the winner
\* is a treatment variant.
C21_RecommendationText ==
    [][\A t \in Ids : Analyzed(t) =>
          LET result == last'.ret.result[1]
              control == experiments[t].variants[FirstControl(experiments[t].variants)].name
          IN  result.recommendation =
                 IF result.winner = control
                 THEN "Keep current model '" \o control \o "'"
                 ELSE "Deploy variant '" \o result.winner \o "'"]_vars

\* C21, amended: the recommendation is a function of the winner alone, with
\* the deploy text as the code writes it: Keep current model '<control>'
\* exactly when the winner is the control, and Deploy variant '<name>' as the
\* new model exactly when the winner is a treatment variant.
C21_RecommendationByWinner ==
    [][\A t \in Ids : Analyzed(t) =>
          LET result == last'.ret.result[1]
              control == experiments[t].variants[FirstControl(experiments[t].variants)].name
          IN  result.recommendation =
                 IF result.winner = control
                 THEN "Keep current model '" \o control \o "'"
                 ELSE "Deploy variant '" \o result.winner \o "' as the new model"]_vars

\* an analysis has returned a treatment variant as the winner, with the
\* deploy recommendation naming it
C21_Witness ==
    /\ last.op = "analyze_results"
    /\ last.ok
    /\ last.ret.result[1].winner = "variant_C"
    /\ last.ret.result[1].recommendation = "Deploy variant 'variant_C' as the new model"

\* what a low-confidence / insufficient-data annotation on a result would be:
\* a field of the result saying so, or a recommendation that is not one of
\* the two plain texts
AnnotationFields == {"low_confidence", "insufficient_data", "warning", "warnings"}

Annotated(result) ==
    \/ DOMAIN result \cap AnnotationFields # {}
    \/ result.recommendation \notin {DeployText(result.winner), KeepText(result.winner)}

\* C22: analyze_results never fails because of small samples: on an
\* experiment with at least one variant it returns a result whatever the
\* counters, and whenever some variant has fewer than min_samples predictions
\* the returned result carries a low-confidence / insufficient-data
\* annotation.
C22_SmallSamplesAnnotated ==
    [][\A t \in Ids :
          (/\ last'.op = "analyze_results"
           /\ last'.id = t
           /\ t \in DOMAIN experiments
           /\ experiments[t].variants # <<>>)
          => /\ last'.ok
             /\ (\E i \in 1..Len(experiments[t].variants) :
                    experiments[t].variants[i].predictions < experiments[t].min_samples)
                => Annotated(last'.ret.result[1])]_vars

\* C23: every successful create_experiment call adds exactly one experiment,
\* in status Draft, under an id that was not in the registry before; no
\* registered experiment is ever replaced or removed, so the set of
\* registered experiments only grows.
C23_RegistryOnlyGrows ==
    [][/\ \A k \in DOMAIN experiments : k \in DOMAIN experiments'
       /\ (last'.op = "create_experiment" /\ last'.ok)
          => /\ last'.id \notin DOMAIN experiments
             /\ DOMAIN experiments' = DOMAIN experiments \cup {last'.id}
             /\ experiments'[last'.id].status = DRAFT
             /\ \A k \in DOMAIN experiments : experiments'[k] = experiments[k]]_vars

\* a step in which export_experiment_report returned the report of t
Exported(t) ==
    /\ last'.op = "export_experiment_report"
    /\ last'.id = t
    /\ t \in DOMAIN experiments
    /\ last'.ok

\* C24: get_variant_metrics omits precision when fraud_detected is 0, omits
\* recall when fraud_detected - false_positives + false_negatives is 0, and
\* reports an f1 score of 0 when precision and recall are both 0; whenever
\* precision and recall are both reported, an f1 score is reported too.
C24_MetricsKeys ==
    [][\A t \in Ids : Exported(t) =>
          \A i \in 1..Len(experiments[t].variants) :
             LET v == experiments[t].variants[i]
                 m == last'.ret.metrics[i]
             IN  /\ v.fraud_detected = 0 => "precision" \notin m.keys
                 /\ v.fraud_detected - v.false_positives + v.false_negatives = 0
                       => "recall" \notin m.keys
                 /\ {"precision", "recall"} \subseteq m.keys
                       => "f1_score" \in m.keys
                 /\ ({"precision", "recall"} \subseteq m.keys
                        /\ m.precision = FZero /\ m.recall = FZero)
                       => "f1_score" \in m.keys /\ m.f1_score[1] = 0]_vars

\* C25: in every reachable state, an experiment whose status is Running has
\* at least one variant and has started_at set, whatever sequence of start,
\* pause, resume and add_variant calls led there.
C25_RunningHasVariantsAndStart ==
    \A t \in Live :
        Obj(t).status = RUNNING
        => /\ Obj(t).variants # <<>>
           /\ Obj(t).started_at # None

\* correct_predictions + false_positives + false_negatives of a variant
Labelled(v) == v.correct_predictions + v.false_positives + v.false_negatives

\* the counters of a variant are ordered as C26 says
CountersOrdered(v) ==
    /\ v.false_positives <= v.fraud_detected
    /\ v.fraud_detected <= v.predictions
    /\ Labelled(v) <= v.predictions
    /\ v.fraud_detected - v.false_positives >= 0

\* one step counts the outcomes of variant i of t: a new experiment starts
\* at 0, a record_prediction call that finds variant i adds 1 to predictions
\* and, when it carries a label, 1 to the labelled sum, and nothing else
\* changes the two
OutcomesCounted(t, i) ==
    IF last'.op = "create_experiment" /\ last'.id = t /\ last'.ok
    THEN experiments'[t].variants[i].predictions = 0 /\ Labelled(experiments'[t].variants[i]) = 0
    ELSE LET v == experiments[t].variants[i]
             w == experiments'[t].variants[i]
             recorded == /\ last'.op = "record_prediction"
                         /\ last'.id = t
                         /\ FindVariant(experiments[t].variants, last'.arg.variant_name) = i
         IN  /\ w.predictions = v.predictions + (IF recorded THEN 1 ELSE 0)
             /\ Labelled(w) = Labelled(v)
                    + (IF recorded /\ last'.arg.is_fraud_actual # None THEN 1 ELSE 0)

\* C26: after any sequence of sequential record_prediction calls every
\* variant has false_positives <= fraud_detected <= predictions, and
\* correct_predictions + false_positives + false_negatives equals the number
\* of its recorded outcomes that carried an actual label (hence is at most
\* predictions), so fraud_detected - false_positives is never negative.
C26_CountersConsistent ==
    /\ [](\A t \in DOMAIN experiments : \A i \in 1..Len(experiments[t].variants) :
              CountersOrdered(experiments[t].variants[i]))
    /\ [][\A t \in DOMAIN experiments' : \A i \in 1..Len(experiments'[t].variants) :
              OutcomesCounted(t, i)]_vars

\* a variant on which a true positive and a false positive have been recorded
C26_Witness ==
    /\ last.op = "record_prediction"
    /\ \E t \in DOMAIN experiments : \E i \in 1..Len(experiments[t].variants) :
          LET v == experiments[t].variants[i]
          IN  /\ v.predictions = 2
              /\ v.fraud_detected = 2
              /\ v.false_positives = 1
              /\ v.correct_predictions = 1

\* C27: every predict_with_ab_test call that returns successfully returns
\* the variant selected by the hash-bucket walk for that user, even when
\* pause() or complete() runs on the same experiment between predict's status
\* check and the router's own status check; it never returns the control
\* fallback instead.
C27_PredictReturnsBucketVariant ==
    \A t \in DOMAIN experiments :
        (last.op = "predict_with_ab_test" /\ last.id = t /\ last.ok)
        => last.ret.name =
              experiments[t].variants[AssignBucket(experiments[t].variants,
                                                   HashBucket(last.arg.user_id, t))].name

\* a traffic_percentage that is a whole number, and the number
Whole(v) ==
    /\ v.traffic_percentage[2] = 0
    /\ v.traffic_percentage[3] = 0
    /\ v.traffic_percentage[1] % 8192 = 0

PercentOf(v) == v.traffic_percentage[1] \div 8192

\* the buckets of 0..99 that the walk of get_variant_for_user maps to variant i
BucketsOf(variants, i) == {b \in 0..99 : AssignBucket(variants, b) = i}

\* the walk ends without returning, so that self.variants[-1] is returned
FallbackReached(variants, bucket) ==
    \A i \in 1..Len(variants) : ~FLess(FromInt(bucket), Cumulative(variants, i))

\* C28, as stated: for a Running experiment that passed the traffic-split
\* validation with whole-number percentages, the number of buckets in 0..99 that
\* get_variant_for_user maps to each variant equals that variant's
\* traffic_percentage; a variant with 0 percent is never assigned and the
\* last-variant fallback is never reached.
C28_BucketsMatchPercentages ==
    \A t \in DOMAIN experiments :
        LET variants == experiments[t].variants
        IN  (/\ experiments[t].status = RUNNING
             /\ variants # <<>>
             /\ ~SplitInvalid(variants)
             /\ \A i \in 1..Len(variants) : Whole(variants[i]))
            => /\ \A i \in 1..Len(variants) :
                     /\ Cardinality(BucketsOf(variants, i)) = PercentOf(variants[i])
                     /\ PercentOf(variants[i]) = 0 => BucketsOf(variants, i) = {}
               /\ \A b \in 0..99 : ~FallbackReached(variants, b)
               /\ (last.op = "get_variant_for_user" /\ last.id = t /\ last.ok)
                     => last.ret.variant \in 1..Len(variants)
                        /\ PercentOf(variants[last.ret.variant]) > 0

\* C28, amended: the same for whole-number percentages between 0 and 100,
\* the range the validation does not enforce.
C28_BucketsMatchPercentagesInRange ==
    \A t \in DOMAIN experiments :
        LET variants == experiments[t].variants
        IN  (/\ experiments[t].status = RUNNING
             /\ variants # <<>>
             /\ ~SplitInvalid(variants)
             /\ \A i \in 1..Len(variants) :
                   Whole(variants[i]) /\ PercentOf(variants[i]) \in 0..100)
            => /\ \A i \in 1..Len(variants) :
                     /\ Cardinality(BucketsOf(variants, i)) = PercentOf(variants[i])
                     /\ PercentOf(variants[i]) = 0 => BucketsOf(variants, i) = {}
               /\ \A b \in 0..99 : ~FallbackReached(variants, b)
               /\ (last.op = "get_variant_for_user" /\ last.id = t /\ last.ok)
                     => last.ret.variant \in 1..Len(variants)
                        /\ PercentOf(variants[last.ret.variant]) > 0

\* a user has been routed in a Running experiment of three variants with
\* whole percentages in range, one of them 0
C28_Witness ==
    /\ last.op = "get_variant_for_user"
    /\ last.ok
    /\ last.id \in DOMAIN experiments
    /\ LET variants == experiments[last.id].variants
       IN  /\ experiments[last.id].status = RUNNING
           /\ Len(variants) = 3
           /\ \A i \in 1..3 : Whole(variants[i]) /\ PercentOf(variants[i]) \in 0..100
           /\ \E i \in 1..3 : PercentOf(variants[i]) = 0
           /\ last.ret.variant = 3

\* C29: once an experiment is Completed its variant counters no longer
\* change, so the analysis that export_experiment_report computes for a
\* Completed experiment always has the winner of the result stored at
\* completion, whatever record_prediction calls arrive afterwards.
C29_CompletedFrozen ==
    [][\A t \in DOMAIN experiments :
          experiments[t].status = COMPLETED
          => /\ (t \in DOMAIN experiments' /\ experiments'[t].status = COMPLETED)
                   => experiments'[t].variants = experiments[t].variants
             /\ Exported(t)
                   => /\ last'.ret.result # None
                      /\ experiments[t].result # None
                      /\ last'.ret.result[1].winner = experiments[t].result[1].winner]_vars

\* C30: record_prediction changes only the counters of the variant it names:
\* the counters of every other variant, the variant list, the status and the
\* timestamps of the experiment, and all other experiments stay unchanged; a
\* call naming a variant that is not in the experiment changes nothing at all
\* and does not raise.
C30_RecordFrame ==
    [][\A t \in DOMAIN experiments :
          Called("record_prediction", t)
          => LET e == experiments[t]
                 i == FindVariant(e.variants, last'.arg.variant_name)
             IN  /\ last'.ok
                 /\ DOMAIN experiments' = DOMAIN experiments
                 /\ \A k \in DOMAIN experiments \ {t} : experiments'[k] = experiments[k]
                 /\ standalone' = standalone
                 /\ model_loaders' = model_loaders
                 /\ clock' = clock
                 /\ IF i = 0
                    THEN experiments'[t] = e
                    ELSE /\ experiments'[t] =
                              [e EXCEPT !.variants[i] = experiments'[t].variants[i]]
                         /\ experiments'[t].variants[i].name = e.variants[i].name
                         /\ experiments'[t].variants[i].traffic_percentage = e.variants[i].traffic_percentage
                         /\ experiments'[t].variants[i].is_control = e.variants[i].is_control]_vars

\* a prediction has just been recorded on variant_B of an experiment whose
\* variant_A has a prediction too, while the other experiment has one as well
C30_Witness ==
    /\ last.op = "record_prediction"
    /\ last.arg.variant_name = "variant_B"
    /\ DOMAIN experiments = Ids
    /\ experiments[last.id].variants[1].predictions = 1
    /\ experiments[last.id].variants[2].predictions = 1
    /\ \E k \in Ids \ {last.id} : TotalPredictions(experiments[k].variants) > 0

====
